---- MODULE Spec2Model ----
(***************************************************************************)
(* Transcription orchestration of apps/whispering                          *)
(* (src/lib/query/transcription.ts): the single-item mutation              *)
(* transcribeRecording, the batch mutation transcribeRecordings, the       *)
(* helper transcribeBlob, the recording store the single-item mutation     *)
(* writes its status to, the settings the selected service is read from,   *)
(* the wall clock, and the analytics and notification sinks.               *)
(*                                                                         *)
(* Every await of the source is a suspension point: an invocation is       *)
(* modelled as a small process whose steps are the code between two        *)
(* awaits, and several invocations interleave at those points.             *)
(***************************************************************************)
EXTENDS Integers, Sequences, FiniteSets, TLC

\* ------------------------------------------------------------------ bounds

\* Total number of transcribeRecording invocations started in a behaviour.
MaxCalls == 2
\* Invocation slots: the mutations that can be in flight at once. A slot whose
\* invocation has returned is free for the next invocation.
Procs == {"p1", "p2"}

\* Total number of transcribeRecordings invocations started in a behaviour,
\* and the largest number of recordings passed to one of them.
MaxBatches == 1
MaxBatchLen == 3
\* The wall clock reads 0..MaxTime.
MaxTime == 2

\* Recording ids, and the texts an adapter can produce.
Recordings == {"r1", "r2"}
\* The recordings that have an audio blob; the others have none.
WithBlob == {"r1"}
Texts == {"hello", "world"}

\* ---------------------------------------------------------------- results

\* wellcrafted Result: Ok(data) | Err(error).
Ok(data) == [data |-> data]
Err(error) == [error |-> error]
IsErr(r) == "error" \in DOMAIN r
IsOk(r) == "data" \in DOMAIN r

\* WhisperingErr({title, description}) builds Err of a WhisperingError.
WhisperingErr(title, description) ==
    Err([name |-> "WhisperingError", title |-> title, description |-> description])

\* The failure of transcribeRecording on a recording without a blob.
BlobNotFound ==
    WhisperingErr("Recording blob not found",
                  "Your recording doesn't have a blob to transcribe.")

\* The failure of the switch's default branch.
NoServiceSelected ==
    WhisperingErr("No transcription service selected",
                  "Please select a transcription service in settings.")

\* What a provider adapter can answer: a text, or one of its own failures.
AdapterErrors ==
    { WhisperingErr("Unauthorized", "Your API key is invalid."),
      WhisperingErr("Connection failed", "The transcription server is unreachable.") }
AdapterResults == { Ok(t) : t \in Texts } \cup AdapterErrors

\* The error of a failed recordings.updateRecording.
DbError == [name |-> "DbServiceError", title |-> "update failed",
            description |-> "could not write the recording"]

\* --------------------------------------------------------------- settings

\* The values of 'transcription.selectedTranscriptionService' the switch
\* names; NoService stands for any value it does not name.
Services == {"OpenAI", "Groq", "speaches", "ElevenLabs", "Deepgram", "whispercpp"}
NoService == "none"
NoAdapter == "noAdapter"

\* Mutant of AdapterOf: an unknown service falls back to the OpenAI adapter.
AdapterOfWithFallback(selectedService, openaiEndpoint) ==
    CASE selectedService = "OpenAI" ->
            IF openaiEndpoint THEN "nativeOpenai" ELSE "openai"
      [] selectedService = "Groq" -> "groq"
      [] selectedService = "speaches" -> "speaches"
      [] selectedService = "ElevenLabs" -> "elevenlabs"
      [] selectedService = "Deepgram" -> "deepgram"
      [] selectedService = "whispercpp" -> "whispercpp"
      [] OTHER -> "openai"

\* The switch of transcribeBlob: the adapter a selected service dispatches
\* to, given whether 'apiEndpoints.openai' is set.
AdapterOf(selectedService, openaiEndpoint) ==
    CASE selectedService = "OpenAI" ->
            IF openaiEndpoint THEN "nativeOpenai" ELSE "openai"
      [] selectedService = "Groq" -> "groq"
      [] selectedService = "speaches" -> "speaches"
      [] selectedService = "ElevenLabs" -> "elevenlabs"
      [] selectedService = "Deepgram" -> "deepgram"
      [] selectedService = "whispercpp" -> "whispercpp"
      [] OTHER -> NoAdapter

Adapters == {"nativeOpenai", "openai", "groq", "speaches", "elevenlabs",
             "deepgram", "whispercpp"}

\* The settings a behaviour starts in and moves between: no service selected,
\* OpenAI with and without a custom endpoint, and one of the other services.
SettingsValues ==
    [selectedTranscriptionService : {NoService, "OpenAI"}, openaiEndpoint : {TRUE}]
    \cup [selectedTranscriptionService : {"Groq"}, openaiEndpoint : {FALSE}]


\* ------------------------------------------------------------------ state

VARIABLES
    db,                  \* the recording store: id -> Recording
    settings,            \* settings.value
    calls,               \* how many invocations were started so far
    pc,                  \* invocation -> where it is: "idle" (never started),
                         \*   "setTranscribing" (awaits the TRANSCRIBING write),
                         \*   "transcribing" (awaits the adapter), "noService"
                         \*   (awaits the switch's default branch), "setTerminal"
                         \*   (awaits the FAILED or DONE write), "done" (returned)
    recording,           \* invocation -> its argument, the Recording passed in
    selectedService,     \* invocation -> transcribeBlob's const selectedService
    transcriptionResult, \* invocation -> transcribeBlob's transcriptionResult
    returned,            \* invocation -> the Result the mutation returned
    effects,             \* invocation -> its outward effects so far, in order
    lost,                \* invocation -> whether a sink lost one of its emissions
    exited,              \* the process has exited
    otherWrites,         \* the number of writes another writer has made
    now,                 \* Date.now(): the wall clock, in ticks
    startTime,           \* invocation -> transcribeBlob's const startTime
    calledWith,          \* invocation -> settings.value when the mutation was
                         \*   called (kept by the specifications that note it)
    batches,             \* how many transcribeRecordings invocations were started
    batchPc,             \* the transcribeRecordings invocation: "idle" (never
                         \*   started), "awaiting" (awaits Promise.all), "done"
    batchRecordings,     \* its argument, the array of Recording passed in
    itemPc,              \* item -> where its callback is: "transcribing",
                         \*   "noService" or "settled" (its promise has a value)
    itemService,         \* item -> transcribeBlob's const selectedService
    itemStart,           \* item -> transcribeBlob's const startTime
    itemResult,          \* item -> the Result its promise settled with
    itemEffects,         \* item -> the outward effects of its callback, in order
    settled,             \* the items in the order their promises settled
    batchReturned        \* the Result the batch mutation returned

singleVars == <<calls, pc, recording, selectedService, transcriptionResult,
                returned, effects, lost, startTime, calledWith>>
batchVars == <<batches, batchPc, batchRecordings, itemPc, itemService,
               itemStart, itemResult, itemEffects, settled, batchReturned>>
vars == <<db, settings, now, otherWrites, exited, singleVars, batchVars>>

\* A local that holds nothing yet, and a selectedService not read yet.
Unset == [unset |-> TRUE]
UnsetService == "unset"

\* Outward effects of an invocation, as the collaborators see them.
WriteEffect(rec, ok) ==
    [kind |-> "updateRecording", recording |-> rec, ok |-> ok]
\* Mutant of WarningEffect: the warning is sent without the error.
WarningEffectWithoutError(warning, error) ==
    [kind |-> "warning", title |-> warning.title,
     description |-> warning.description, error |-> Unset]
WarningEffect(warning, error) ==
    [kind |-> "warning", title |-> warning.title,
     description |-> warning.description, error |-> error]
LogEventEffect(type, provider) ==
    [kind |-> "logEvent", type |-> type, provider |-> provider]
\* The two terminal events of transcribeBlob, with the fields each is sent
\* with.
FailedEvent(provider, error) ==
    [kind |-> "logEvent", type |-> "transcription_failed", provider |-> provider,
     error_title |-> error.title, error_description |-> error.description]
CompletedEvent(provider, duration) ==
    [kind |-> "logEvent", type |-> "transcription_completed",
     provider |-> provider, duration |-> duration]
TranscribeEffect(adapter) ==
    [kind |-> "transcribe", adapter |-> adapter]

\* ------------------------------------------------- transcribeRecording

\* Mutant of HasBlob: the blob check is missing.
HasBlobUnchecked(rec) == TRUE

\* !recording.blob is false: the recording has a blob.
HasBlob(rec) == rec.blob

\* Mutant of TranscribingRecording: the status is not set.
TranscribingRecordingUnmarked(rec) == rec

\* { ...recording, transcriptionStatus: 'TRANSCRIBING' }
TranscribingRecording(rec) ==
    [rec EXCEPT !.transcriptionStatus = "TRANSCRIBING"]

\* Mutant of FailedRecording: the earlier text is cleared.
FailedRecordingCleared(rec) ==
    [rec EXCEPT !.transcriptionStatus = "FAILED", !.transcribedText = ""]

\* Mutant of FailedRecording: the status is not set.
FailedRecordingUnmarked(rec) == rec

\* { ...recording, transcriptionStatus: 'FAILED' }
FailedRecording(rec) ==
    [rec EXCEPT !.transcriptionStatus = "FAILED"]

\* Mutant of DoneRecording: a text the recording already has is kept.
DoneRecordingKeepingText(rec, transcribedText) ==
    [rec EXCEPT !.transcribedText =
                    IF rec.transcribedText = "" THEN transcribedText ELSE @,
                !.transcriptionStatus = "DONE"]

\* Mutant of DoneRecording: the text is not written.
DoneRecordingWithoutText(rec, transcribedText) ==
    [rec EXCEPT !.transcriptionStatus = "DONE"]

\* { ...recording, transcribedText, transcriptionStatus: 'DONE' }
DoneRecording(rec, transcribedText) ==
    [rec EXCEPT !.transcribedText = transcribedText,
                !.transcriptionStatus = "DONE"]

\* Mutant of updateRecording: a stored DONE or FAILED is not written over.
updateRecordingFirstWins(store, rec, ok) ==
    IF ok /\ store[rec.id].transcriptionStatus \notin {"DONE", "FAILED"}
    THEN [store EXCEPT ![rec.id] = rec]
    ELSE store

\* Mutant of updateRecording: only the fields the call changes are stored.
updateRecordingMerging(store, rec, ok) ==
    IF ok
    THEN [store EXCEPT ![rec.id].transcriptionStatus = rec.transcriptionStatus,
                       ![rec.id].transcribedText =
                           IF rec.transcriptionStatus = "DONE"
                           THEN rec.transcribedText ELSE @]
    ELSE store

\* recordings.updateRecording: the store after the call; a failed call
\* leaves the store as it was.
updateRecording(store, rec, ok) ==
    IF ok THEN [store EXCEPT ![rec.id] = rec] ELSE store

\* Mutant of WriteAndWarn: a failed write is tried once more.
WriteAndWarnRetrying(rec, ok, warning) ==
    IF ok THEN <<WriteEffect(rec, TRUE)>>
    ELSE <<WriteEffect(rec, FALSE), WarningEffect(warning, DbError),
           WriteEffect(rec, TRUE)>>

\* The effects of one awaited updateRecording and of the warning that
\* follows it when it failed.
WriteAndWarn(rec, ok, warning) ==
    IF ok THEN <<WriteEffect(rec, TRUE)>>
    ELSE <<WriteEffect(rec, FALSE), WarningEffect(warning, DbError)>>

\* The warnings of the three writes.
TranscribingWarning ==
    [title |-> "Unable to set recording transcription status to transcribing",
     description |-> "Continuing with the transcription process..."]
FailedWarning ==
    [title |-> "Unable to update recording after transcription",
     description |-> "Transcription failed but unable to update recording's transcription status in database"]
DoneWarning ==
    [title |-> "Unable to update recording after transcription",
     description |-> "Transcription completed but unable to update recording's transcribed text and status in database"]

\* Mutant of ReturnOfFailure: a failed FAILED write replaces the failure.
ReturnOfFailureEscalated(transcribeError, writeOk) ==
    IF writeOk THEN Err(transcribeError) ELSE Err(DbError)

\* What the mutation returns after a failed transcribeBlob.
ReturnOfFailure(transcribeError, writeOk) == Err(transcribeError)

\* Mutant of ReturnOfSuccess: a failed DONE write turns the call into an Err.
ReturnOfSuccessEscalated(transcribedText, writeOk) ==
    IF writeOk THEN Ok(transcribedText) ELSE Err(DbError)

\* What the mutation returns after a successful transcribeBlob.
ReturnOfSuccess(transcribedText, writeOk) == Ok(transcribedText)

\* Mutant of TerminalRecording: a failure writes the TRANSCRIBING record again.
TerminalRecordingStale(rec, result) ==
    IF IsErr(result) THEN TranscribingRecording(rec)
    ELSE DoneRecording(rec, result.data)

\* The record of the terminal write, from transcribeBlob's result.
TerminalRecording(rec, result) ==
    IF IsErr(result) THEN FailedRecording(rec)
    ELSE DoneRecording(rec, result.data)

\* The warning of the terminal write, from transcribeBlob's result.
TerminalWarning(result) ==
    IF IsErr(result) THEN FailedWarning ELSE DoneWarning

\* ------------------------------------------------------- transcribeBlob

\* const duration = Date.now() - startTime
Duration(start, end) == end - start

\* Mutant of TerminalEvent: every result is reported as completed.
TerminalEventAlwaysCompleted(provider, result, duration) ==
    CompletedEvent(provider, duration)

\* The terminal event of transcribeBlob: 'transcription_failed' with the
\* error's title and description when the result is an Err, otherwise
\* 'transcription_completed' with the duration.
TerminalEvent(provider, result, duration) ==
    IF IsErr(result) THEN FailedEvent(provider, result.error)
    ELSE CompletedEvent(provider, duration)

\* Mutant of BlobStart: the request is reported only when an adapter is called.
BlobStartRequestingWhenCalled(service, adapter) ==
    IF adapter = NoAdapter THEN <<>>
    ELSE <<LogEventEffect("transcription_requested", service),
           TranscribeEffect(adapter)>>

\* transcribeBlob up to its await: the 'transcription_requested' event, then
\* the switch's call of an adapter, if the service has one.
BlobStart(service, adapter) ==
    <<LogEventEffect("transcription_requested", service)>>
    \o (IF adapter = NoAdapter THEN <<>> ELSE <<TranscribeEffect(adapter)>>)

Init ==
    /\ db = [r \in Recordings |->
                [id |-> r, blob |-> r \in WithBlob,
                 transcriptionStatus |-> "UNTRANSCRIBED", transcribedText |-> ""]]
    /\ lost = [p \in Procs |-> FALSE]
    /\ settings \in SettingsValues
    /\ calls = 0
    /\ pc = [p \in Procs |-> "idle"]
    /\ recording = [p \in Procs |-> Unset]
    /\ selectedService = [p \in Procs |-> UnsetService]
    /\ transcriptionResult = [p \in Procs |-> Unset]
    /\ returned = [p \in Procs |-> Unset]
    /\ effects = [p \in Procs |-> <<>>]
    /\ now = 0
    /\ otherWrites = 0
    /\ exited = FALSE
    /\ startTime = [p \in Procs |-> 0]
    /\ calledWith = [p \in Procs |-> Unset]
    /\ batches = 0
    /\ batchPc = "idle"
    /\ batchRecordings = <<>>
    /\ itemPc = <<>>
    /\ itemService = <<>>
    /\ itemStart = <<>>
    /\ itemResult = <<>>
    /\ itemEffects = <<>>
    /\ settled = <<>>
    /\ batchReturned = Unset

\* The slot a new invocation takes: the first one that is free.
FreeSlot == IF pc["p1"] \in {"idle", "done"} THEN "p1" ELSE "p2"

\* transcribeRecording(recording), up to its first await: the blob check,
\* and the call of updateRecording with status TRANSCRIBING.
Called(p, r) ==
    /\ pc[p] \in {"idle", "done"}
    /\ p = FreeSlot
    /\ calls < MaxCalls
    /\ calls' = calls + 1
    /\ recording' = [recording EXCEPT ![p] = db[r]]
    /\ selectedService' = [selectedService EXCEPT ![p] = UnsetService]
    /\ transcriptionResult' = [transcriptionResult EXCEPT ![p] = Unset]
    /\ effects' = [effects EXCEPT ![p] = <<>>]
    /\ IF ~HasBlob(db[r])
       THEN /\ returned' = [returned EXCEPT ![p] = BlobNotFound]
            /\ pc' = [pc EXCEPT ![p] = "done"]
       ELSE /\ returned' = [returned EXCEPT ![p] = Unset]
            /\ pc' = [pc EXCEPT ![p] = "setTranscribing"]
    /\ lost' = [lost EXCEPT ![p] = FALSE]
    /\ startTime' = [startTime EXCEPT ![p] = 0]
    /\ UNCHANGED <<db, settings, now, otherWrites, exited,
                   batchVars>>

\* An invocation starts.
Start(p, r) ==
    /\ Called(p, r)
    /\ UNCHANGED calledWith

\* An invocation starts, and the settings of that moment are noted.
StartNoting(p, r) ==
    /\ Called(p, r)
    /\ calledWith' = [calledWith EXCEPT ![p] = settings]

\* The TRANSCRIBING write resolves (ok or not); the warning when it failed;
\* then transcribeBlob up to its await: the read of the selected service and
\* of the clock, the 'transcription_requested' event and the switch's call of
\* an adapter.
SetTranscribing(p, ok, sinkOk) ==
    /\ pc[p] = "setTranscribing"
    /\ LET rec == TranscribingRecording(recording[p])
           service == settings.selectedTranscriptionService
           adapter == AdapterOf(service, settings.openaiEndpoint)
       IN /\ db' = updateRecording(db, rec, ok)
          /\ selectedService' = [selectedService EXCEPT ![p] = service]
          /\ effects' = [effects EXCEPT ![p] =
                @ \o WriteAndWarn(rec, ok, TranscribingWarning)
                  \o BlobStart(service, adapter)]
          /\ startTime' = [startTime EXCEPT ![p] = now]
          /\ pc' = [pc EXCEPT ![p] =
                       IF adapter = NoAdapter THEN "noService" ELSE "transcribing"]
          /\ lost' = [lost EXCEPT ![p] = @ \/ ~sinkOk]
    /\ UNCHANGED <<settings, now, otherWrites, exited, calls, recording, transcriptionResult,
                   returned, calledWith,
                   batchVars>>

\* The rest of transcribeBlob once the switch has its result, and
\* transcribeRecording up to its next await: the read of the clock, the
\* terminal event, and the call of updateRecording with status FAILED or DONE.
AfterSwitch(p, result, sinkOk) ==
    /\ transcriptionResult' = [transcriptionResult EXCEPT ![p] = result]
    /\ effects' = [effects EXCEPT ![p] =
            Append(@, TerminalEvent(selectedService[p], result,
                                    Duration(startTime[p], now)))]
    /\ lost' = [lost EXCEPT ![p] = @ \/ ~sinkOk]
    /\ pc' = [pc EXCEPT ![p] = "setTerminal"]
    /\ UNCHANGED <<db, settings, now, otherWrites, exited, calls, recording, selectedService,
                   returned, startTime, calledWith,
                   batchVars>>

\* The adapter's transcribe() resolves with a text or with a failure.
AdapterReturns(p, result, sinkOk) ==
    /\ pc[p] = "transcribing"
    /\ AfterSwitch(p, result, sinkOk)

\* The switch's default branch: no adapter is called.
DefaultBranch(p, sinkOk) ==
    /\ pc[p] = "noService"
    /\ AfterSwitch(p, NoServiceSelected, sinkOk)

\* The terminal write resolves (ok or not); the warning when it failed; the
\* mutation returns.
SetTerminal(p, ok, sinkOk) ==
    /\ pc[p] = "setTerminal"
    /\ LET result == transcriptionResult[p]
           rec == TerminalRecording(recording[p], result)
       IN /\ db' = updateRecording(db, rec, ok)
          /\ effects' = [effects EXCEPT ![p] =
                @ \o WriteAndWarn(rec, ok, TerminalWarning(result))]
          /\ lost' = [lost EXCEPT ![p] = @ \/ (~ok /\ ~sinkOk)]
          /\ returned' = [returned EXCEPT ![p] =
                IF IsErr(result) THEN ReturnOfFailure(result.error, ok)
                ELSE ReturnOfSuccess(result.data, ok)]
          /\ pc' = [pc EXCEPT ![p] = "done"]
    /\ UNCHANGED <<settings, now, otherWrites, exited, calls, recording, selectedService,
                   transcriptionResult, startTime, calledWith,
                   batchVars>>

\* The user selects another service or endpoint in the settings.
ChangeSettings(value) ==
    /\ value # settings
    /\ settings' = value
    /\ UNCHANGED <<db, now, otherWrites, exited, singleVars,
                   batchVars>>

Next ==
    \/ \E p \in Procs, r \in Recordings : Start(p, r)
    \/ \E p \in Procs, ok, sinkOk \in BOOLEAN : SetTranscribing(p, ok, sinkOk)
    \/ \E p \in Procs, result \in AdapterResults, sinkOk \in BOOLEAN :
          AdapterReturns(p, result, sinkOk)
    \/ \E p \in Procs, sinkOk \in BOOLEAN : DefaultBranch(p, sinkOk)
    \/ \E p \in Procs, ok, sinkOk \in BOOLEAN : SetTerminal(p, ok, sinkOk)
    \/ \E value \in SettingsValues : ChangeSettings(value)

Spec == Init /\ [][Next]_vars

\* The same program when the caller awaits each invocation before it starts
\* the next one: no two invocations overlap.
StartInSequence(p, r) ==
    /\ \A q \in Procs : pc[q] \in {"idle", "done"}
    /\ Start(p, r)

NextInSequence ==
    \/ \E p \in Procs, r \in Recordings : StartInSequence(p, r)
    \/ \E p \in Procs, ok, sinkOk \in BOOLEAN : SetTranscribing(p, ok, sinkOk)
    \/ \E p \in Procs, result \in AdapterResults, sinkOk \in BOOLEAN :
          AdapterReturns(p, result, sinkOk)
    \/ \E p \in Procs, sinkOk \in BOOLEAN : DefaultBranch(p, sinkOk)
    \/ \E p \in Procs, ok, sinkOk \in BOOLEAN : SetTerminal(p, ok, sinkOk)
    \/ \E value \in SettingsValues : ChangeSettings(value)

SpecInSequence == Init /\ [][NextInSequence]_vars

\* The wall clock moves: Date.now() is the system's wall-clock time, which
\* advances and which an adjustment of the system time can also set back.
ClockChanges(t) ==
    /\ t # now
    /\ now' = t
    /\ UNCHANGED <<db, settings, otherWrites, exited, singleVars,
                   batchVars>>

\* The invocations of one slot, one after the other, with the wall clock
\* moving between their steps.
NextWithClock ==
    \/ \E r \in Recordings : Start("p1", r)
    \/ \E ok, sinkOk \in BOOLEAN : SetTranscribing("p1", ok, sinkOk)
    \/ \E result \in AdapterResults, sinkOk \in BOOLEAN :
          AdapterReturns("p1", result, sinkOk)
    \/ \E sinkOk \in BOOLEAN : DefaultBranch("p1", sinkOk)
    \/ \E ok, sinkOk \in BOOLEAN : SetTerminal("p1", ok, sinkOk)
    \/ \E value \in SettingsValues : ChangeSettings(value)
    \/ \E t \in 0..MaxTime : ClockChanges(t)

SpecWithClock == Init /\ [][NextWithClock]_vars

\* The invocations of one slot, one after the other, each with the settings
\* of its start noted, while the settings change.
NextNoting ==
    \/ \E r \in Recordings : StartNoting("p1", r)
    \/ \E ok, sinkOk \in BOOLEAN : SetTranscribing("p1", ok, sinkOk)
    \/ \E result \in AdapterResults, sinkOk \in BOOLEAN :
          AdapterReturns("p1", result, sinkOk)
    \/ \E sinkOk \in BOOLEAN : DefaultBranch("p1", sinkOk)
    \/ \E ok, sinkOk \in BOOLEAN : SetTerminal("p1", ok, sinkOk)
    \/ \E value \in SettingsValues : ChangeSettings(value)

SpecNoting == Init /\ [][NextNoting]_vars

\* Overlapping invocations all of whose writes succeed, each applied when it
\* resolves.
NextWritesSucceed ==
    \/ \E p \in Procs, r \in Recordings : Start(p, r)
    \/ \E p \in Procs : SetTranscribing(p, TRUE, TRUE)
    \/ \E p \in Procs, result \in AdapterResults :
          AdapterReturns(p, result, TRUE)
    \/ \E p \in Procs : DefaultBranch(p, TRUE)
    \/ \E p \in Procs : SetTerminal(p, TRUE, TRUE)
    \/ \E value \in SettingsValues : ChangeSettings(value)

SpecWritesSucceed == Init /\ [][NextWritesSucceed]_vars

\* Another writer of the store: the text of a stored recording is edited, at
\* most MaxOtherWrites times.
MaxOtherWrites == 1
OtherTexts == {"edited"}

OtherWriter(r, text) ==
    /\ otherWrites < MaxOtherWrites
    /\ otherWrites' = otherWrites + 1
    /\ db' = [db EXCEPT ![r].transcribedText = text]
    /\ UNCHANGED <<settings, now, exited, singleVars, batchVars>>

\* The invocations of one slot, one after the other, while another writer
\* writes to the store and the settings change.
NextWithWriter ==
    \/ \E r \in Recordings : Start("p1", r)
    \/ \E ok, sinkOk \in BOOLEAN : SetTranscribing("p1", ok, sinkOk)
    \/ \E result \in AdapterResults, sinkOk \in BOOLEAN :
          AdapterReturns("p1", result, sinkOk)
    \/ \E sinkOk \in BOOLEAN : DefaultBranch("p1", sinkOk)
    \/ \E ok, sinkOk \in BOOLEAN : SetTerminal("p1", ok, sinkOk)
    \/ \E value \in SettingsValues : ChangeSettings(value)
    \/ \E r \in Recordings, text \in OtherTexts : OtherWriter(r, text)

SpecWithWriter == Init /\ [][NextWithWriter]_vars

\* ------------------------------------------------- transcribeRecordings

\* The arrays of recordings a batch can be called with.
BatchInputs == UNION { [1..n -> Recordings] : n \in 0..MaxBatchLen }

\* Where the callback of an item stands once recordings.map has called it:
\* its promise has a value at once when the recording has no blob; otherwise
\* it awaits transcribeBlob, which awaits the switch.
ItemStartPc(rec, adapter) ==
    IF ~HasBlob(rec) THEN "settled"
    ELSE IF adapter = NoAdapter THEN "noService" ELSE "transcribing"

\* Mutant of ItemStartEffects: the item is marked as in the single-item path.
ItemStartEffectsMarking(rec, service, adapter) ==
    IF ~HasBlob(rec) THEN <<>>
    ELSE <<WriteEffect(TranscribingRecording(rec), TRUE)>>
         \o BlobStart(service, adapter)

\* The effects of the callback of an item up to its await: none when the
\* recording has no blob, otherwise those of transcribeBlob.
ItemStartEffects(rec, service, adapter) ==
    IF ~HasBlob(rec) THEN <<>> ELSE BlobStart(service, adapter)

\* The value the promise of an item has right after the map: the
\* blob-not-found failure when the recording has no blob, none yet otherwise.
ItemStartResult(rec) == IF ~HasBlob(rec) THEN BlobNotFound ELSE Unset

\* Mutant of PromiseAll: the values come in the order the promises settled.
PromiseAllAsSettled(values, order) ==
    [k \in 1..Len(order) |-> values[order[k]]]

\* Promise.all: the values of the promises in the order of the promises,
\* whatever the order they settled in.
PromiseAll(values, order) == [i \in 1..Len(order) |-> values[i]]

\* Mutant of AllSettled: the first promise with a value ends the wait.
AnySettled(pcs, values) ==
    \/ pcs = <<>>
    \/ \E i \in 1..Len(pcs) : pcs[i] = "settled"

\* Mutant of AllSettled: the first failure ends the wait.
SettledOrFailed(pcs, values) ==
    \/ \A i \in 1..Len(pcs) : pcs[i] = "settled"
    \/ \E i \in 1..Len(pcs) : pcs[i] = "settled" /\ IsErr(values[i])

\* Promise.all resolves when every promise has a value: none of the promises
\* rejects, a failure is a value.
AllSettled(pcs, values) == \A i \in 1..Len(pcs) : pcs[i] = "settled"

\* partitionResults of wellcrafted/result: the Ok values and the Err values,
\* each in the order of the array.
partitionResults(results) ==
    [oks |-> SelectSeq(results, IsOk), errs |-> SelectSeq(results, IsErr)]

\* Mutant of BatchResult: a batch without a success is a failure of the call.
BatchResultFailingWhenAllFail(results) ==
    IF results # <<>> /\ partitionResults(results).oks = <<>>
    THEN Err(partitionResults(results).errs[1].error)
    ELSE Ok(partitionResults(results))

\* What the batch mutation returns.
BatchResult(results) == Ok(partitionResults(results))

\* transcribeRecordings(recordings) up to its await: recordings.map calls the
\* callback of every item in turn, and each runs up to its own await: the blob
\* check, then transcribeBlob's read of the selected service and of the clock,
\* the 'transcription_requested' event and the switch's call of an adapter.
StartBatch(input) ==
    /\ batchPc \in {"idle", "done"}
    /\ batches < MaxBatches
    /\ batches' = batches + 1
    /\ LET recs == [i \in 1..Len(input) |-> db[input[i]]]
           service == settings.selectedTranscriptionService
           adapter == AdapterOf(service, settings.openaiEndpoint)
       IN /\ batchRecordings' = recs
          /\ itemPc' = [i \in 1..Len(input) |-> ItemStartPc(recs[i], adapter)]
          /\ itemService' = [i \in 1..Len(input) |->
                IF HasBlob(recs[i]) THEN service ELSE UnsetService]
          /\ itemStart' = [i \in 1..Len(input) |->
                IF HasBlob(recs[i]) THEN now ELSE 0]
          /\ itemResult' = [i \in 1..Len(input) |-> ItemStartResult(recs[i])]
          /\ itemEffects' = [i \in 1..Len(input) |->
                ItemStartEffects(recs[i], service, adapter)]
          /\ settled' = SelectSeq([i \in 1..Len(input) |-> i],
                                  LAMBDA i : ~HasBlob(recs[i]))
    /\ batchPc' = "awaiting"
    /\ batchReturned' = Unset
    /\ UNCHANGED <<db, settings, now, otherWrites, exited, singleVars>>

\* The rest of transcribeBlob for an item once the switch has its result: the
\* read of the clock and the terminal event; the promise of the item settles
\* with the result.
ItemSettles(i, result) ==
    /\ batchPc = "awaiting"
    /\ itemResult' = [itemResult EXCEPT ![i] = result]
    /\ itemEffects' = [itemEffects EXCEPT ![i] =
            Append(@, TerminalEvent(itemService[i], result,
                                    Duration(itemStart[i], now)))]
    /\ itemPc' = [itemPc EXCEPT ![i] = "settled"]
    /\ settled' = Append(settled, i)
    /\ UNCHANGED <<db, settings, now, otherWrites, exited, singleVars, batches, batchPc,
                   batchRecordings, itemService, itemStart, batchReturned>>

\* The adapter's transcribe() of an item resolves with a text or a failure.
ItemAdapterReturns(i, result) ==
    /\ i \in 1..Len(itemPc)
    /\ itemPc[i] = "transcribing"
    /\ ItemSettles(i, result)

\* The switch's default branch for an item: no adapter is called.
ItemDefaultBranch(i) ==
    /\ i \in 1..Len(itemPc)
    /\ itemPc[i] = "noService"
    /\ ItemSettles(i, NoServiceSelected)

\* Promise.all resolves; the results are partitioned and the mutation returns.
BatchReturns ==
    /\ batchPc = "awaiting"
    /\ AllSettled(itemPc, itemResult)
    /\ batchReturned' = BatchResult(PromiseAll(itemResult, settled))
    /\ batchPc' = "done"
    /\ UNCHANGED <<db, settings, now, otherWrites, exited, singleVars, batches, batchRecordings,
                   itemPc, itemService, itemStart, itemResult, itemEffects,
                   settled>>

\* Batch invocations, one after the other, while the settings change.
NextBatch ==
    \/ \E input \in BatchInputs : StartBatch(input)
    \/ \E i \in 1..MaxBatchLen, result \in AdapterResults :
          ItemAdapterReturns(i, result)
    \/ \E i \in 1..MaxBatchLen : ItemDefaultBranch(i)
    \/ BatchReturns
    \/ \E value \in SettingsValues : ChangeSettings(value)

SpecBatch == Init /\ [][NextBatch]_vars

\* Single and batch invocations together: at most MaxInvocations of them, the
\* batches of at most MaxMixedLen recordings, every write and every sink
\* succeeding, the settings staying as they were at the start.
MaxInvocations == 2
MaxMixedLen == 2

\* The answers an adapter gives in the runs of single and batch invocations
\* together: a text or a failure.
MixedResults == {Ok("hello"), WhisperingErr("Unauthorized", "Your API key is invalid.")}

StartMixed(p, r) ==
    /\ calls + batches < MaxInvocations
    /\ Start(p, r)

StartBatchMixed(input) ==
    /\ calls + batches < MaxInvocations
    /\ Len(input) <= MaxMixedLen
    /\ StartBatch(input)

NextMixed ==
    \/ \E p \in Procs, r \in Recordings : StartMixed(p, r)
    \/ \E p \in Procs : SetTranscribing(p, TRUE, TRUE)
    \/ \E p \in Procs, result \in MixedResults : AdapterReturns(p, result, TRUE)
    \/ \E p \in Procs : DefaultBranch(p, TRUE)
    \/ \E p \in Procs : SetTerminal(p, TRUE, TRUE)
    \/ \E input \in BatchInputs : StartBatchMixed(input)
    \/ \E i \in 1..MaxBatchLen, result \in MixedResults :
          ItemAdapterReturns(i, result)
    \/ \E i \in 1..MaxBatchLen : ItemDefaultBranch(i)
    \/ BatchReturns

SpecMixed == Init /\ [][NextMixed]_vars

\* The process exits: whatever is in flight is never resumed, and nothing is
\* called any more; the store keeps what was written.
ProcessExits ==
    /\ ~exited
    /\ exited' = TRUE
    /\ UNCHANGED <<db, settings, now, otherWrites, singleVars, batchVars>>

\* The steps of the single invocations of one slot and of the batch
\* invocations, together, of a process that lives.
Resolves(p) ==
    \/ SetTranscribing(p, TRUE, TRUE)
    \/ \E result \in MixedResults : AdapterReturns(p, result, TRUE)
    \/ DefaultBranch(p, TRUE)
    \/ \E ok \in BOOLEAN : SetTerminal(p, ok, TRUE)

ItemResolves(i) ==
    \/ \E result \in MixedResults : ItemAdapterReturns(i, result)
    \/ ItemDefaultBranch(i)

NextAlive ==
    /\ ~exited
    /\ \/ \E r \in Recordings : StartMixed("p1", r)
       \/ Resolves("p1")
       \/ \E input \in BatchInputs : StartBatchMixed(input)
       \/ \E i \in 1..MaxBatchLen : ItemResolves(i)
       \/ BatchReturns

NextFair == NextAlive \/ ProcessExits

\* Every status-store call and every adapter call returns in the end, and a
\* continuation that can run does run, as long as the process lives.
Fairness ==
    /\ WF_vars(~exited /\ Resolves("p1"))
    /\ \A i \in 1..MaxBatchLen : WF_vars(~exited /\ ItemResolves(i))
    /\ WF_vars(~exited /\ BatchReturns)

SpecFair == Init /\ [][NextFair]_vars /\ Fairness

\* ------------------------------------------------------ isTranscribing

\* queryClient.isMutating({ mutationKey: transcriptionKeys.isTranscribing }):
\* the number of mutations under the key that are pending. Both mutations are
\* defined under that key; a mutation is pending from its call until its
\* function has returned.
isMutating ==
    Cardinality({p \in Procs : pc[p] \notin {"idle", "done"}})
    + (IF batchPc = "awaiting" THEN 1 ELSE 0)

\* Mutant of isCurrentlyTranscribing: one pending mutation does not count.
isCurrentlyTranscribingWhenSeveral == isMutating > 1

\* isCurrentlyTranscribing()
isCurrentlyTranscribing == isMutating > 0

\* ------------------------------------------------------- reading a state

\* The updateRecording calls of an invocation, in order.
Writes(p) == SelectSeq(effects[p], LAMBDA e : e.kind = "updateRecording")

\* The adapter calls of an invocation, in order.
AdapterCalls(p) == SelectSeq(effects[p], LAMBDA e : e.kind = "transcribe")

\* The status and the text the store holds for the recording of an invocation.
StoredStatus(p) == db[recording[p].id].transcriptionStatus
StoredText(p) == db[recording[p].id].transcribedText

\* The invocation has returned its Result.
Returned(p) == pc[p] = "done"

\* ------------------------------------------------------------------ C1

\* C1: a recording without a blob makes transcribeRecording return the
\* blob-not-found failure with no updateRecording call and no adapter call,
\* and such a recording is never stored with status TRANSCRIBING.
C1_MissingBlobRejected ==
    /\ \A p \in Procs :
          (pc[p] # "idle" /\ ~recording[p].blob) =>
             /\ Returned(p)
             /\ returned[p] = BlobNotFound
             /\ Writes(p) = <<>>
             /\ AdapterCalls(p) = <<>>
    /\ \A r \in Recordings :
          ~db[r].blob => db[r].transcriptionStatus # "TRANSCRIBING"

\* A call on the blob-less recording has returned while a call on the
\* recording with a blob has gone through to DONE.
C1_Witness ==
    \E p, q \in Procs :
       /\ Returned(p) /\ ~recording[p].blob /\ returned[p] = BlobNotFound
       /\ Returned(q) /\ recording[q].blob /\ StoredStatus(q) = "DONE"

\* --------------------------------------------------------------- C2, C4

\* The step in which invocation p gets the answer of its terminal write and
\* returns.
Returns(p) == pc[p] = "setTerminal" /\ pc'[p] = "done"

\* The terminal write of the returning invocation p succeeded.
TerminalWriteOk(p) ==
    LET e == effects'[p]
    IN e[Len(e)].kind = "updateRecording" /\ e[Len(e)].ok

\* The stored recording of p right after p's return.
StoredAfter(p) == db'[recording[p].id]

\* C2 as stated: whenever transcribeBlob succeeded with a text, the store
\* holds DONE and that text when transcribeRecording returns.
C2_Original ==
    [][\A p \in Procs :
         (Returns(p) /\ IsOk(transcriptionResult[p])) =>
            /\ StoredAfter(p).transcriptionStatus = "DONE"
            /\ StoredAfter(p).transcribedText = transcriptionResult[p].data]_vars

\* C2, amended: whenever the adapter succeeded with a text and the DONE write
\* succeeded, the store holds DONE and that text when transcribeRecording
\* returns, whether or not the TRANSCRIBING write had succeeded; the call
\* returns Ok(text) in either case.
C2_DoneWhenWritten ==
    [][\A p \in Procs :
         (Returns(p) /\ IsOk(transcriptionResult[p])) =>
            /\ returned'[p] = Ok(transcriptionResult[p].data)
            /\ TerminalWriteOk(p) =>
                 /\ StoredAfter(p).transcriptionStatus = "DONE"
                 /\ StoredAfter(p).transcribedText = transcriptionResult[p].data]_vars

\* An invocation whose TRANSCRIBING write failed and whose DONE write
\* succeeded has returned, and the store holds DONE and its text.
C2_Witness ==
    \E p \in Procs :
       /\ Returned(p) /\ recording[p].blob /\ IsOk(returned[p])
       /\ Len(Writes(p)) = 2
       /\ ~Writes(p)[1].ok /\ Writes(p)[2].ok
       /\ StoredStatus(p) = "DONE"
       /\ StoredText(p) = returned[p].data

\* C4 as stated: whenever the adapter failed, the store holds FAILED when
\* transcribeRecording returns.
C4_Original ==
    [][\A p \in Procs :
         (Returns(p) /\ AdapterCalls(p) # <<>> /\ IsErr(transcriptionResult[p])) =>
            StoredAfter(p).transcriptionStatus = "FAILED"]_vars

\* C4, amended: whenever the adapter failed and the FAILED write succeeded,
\* the store holds FAILED when transcribeRecording returns; when that write
\* failed the store is left as it was.
C4_FailedWhenWritten ==
    [][\A p \in Procs :
         (Returns(p) /\ AdapterCalls(p) # <<>> /\ IsErr(transcriptionResult[p])) =>
            IF TerminalWriteOk(p)
            THEN StoredAfter(p).transcriptionStatus = "FAILED"
            ELSE db' = db]_vars

\* An invocation whose adapter failed has returned after a FAILED write that
\* succeeded, and the store holds FAILED.
C4_Witness ==
    \E p \in Procs :
       /\ Returned(p) /\ AdapterCalls(p) # <<>> /\ IsErr(returned[p])
       /\ Len(Writes(p)) = 2 /\ Writes(p)[2].ok
       /\ StoredStatus(p) = "FAILED"

\* ------------------------------------------------------------------ C3

\* C3: when the adapter failed, transcribeRecording returns that very failure,
\* whatever the outcomes of the TRANSCRIBING and FAILED writes.
C3_FailureReturnedUnchanged ==
    \A p \in Procs :
       (Returned(p) /\ AdapterCalls(p) # <<>> /\ IsErr(transcriptionResult[p])) =>
          /\ returned[p] = transcriptionResult[p]
          /\ returned[p] \in AdapterErrors

\* An invocation whose adapter failed and whose two writes both failed has
\* returned the adapter's failure.
C3_Witness ==
    \E p \in Procs :
       /\ Returned(p) /\ AdapterCalls(p) # <<>>
       /\ returned[p] \in AdapterErrors
       /\ Len(Writes(p)) = 2 /\ ~Writes(p)[1].ok /\ ~Writes(p)[2].ok

\* ------------------------------------------------------------------ C5

\* What the transcription itself came to in an invocation: whether there was
\* a blob, the service read from the settings, and transcribeBlob's result.
Outcome(p) == <<recording[p].blob, selectedService[p], transcriptionResult[p]>>

\* The outcomes of the writes of an invocation, in order.
WriteOutcomes(p) == [i \in 1..Len(Writes(p)) |-> Writes(p)[i].ok]

\* C5: two invocations with the same transcription outcome return the same
\* Result, however their status writes and their emissions fared.
C5_ResultIgnoresBookkeeping ==
    \A p, q \in Procs :
       (Returned(p) /\ Returned(q) /\ Outcome(p) = Outcome(q)) =>
          returned[p] = returned[q]

\* Two invocations with the same outcome have returned the same Result after
\* different write outcomes and after different sink outcomes.
C5_Witness ==
    \E p, q \in Procs :
       /\ Returned(p) /\ Returned(q) /\ recording[p].blob
       /\ Outcome(p) = Outcome(q)
       /\ WriteOutcomes(p) # WriteOutcomes(q)
       /\ lost[p] # lost[q]
       /\ returned[p] = returned[q]

\* ------------------------------------------------------------------ C6

\* C6: an invocation that read "no service selected" from the settings calls
\* no adapter at any point and returns the no-service failure.
C6_NoServiceNoAdapter ==
    \A p \in Procs :
       selectedService[p] = NoService =>
          /\ AdapterCalls(p) = <<>>
          /\ pc[p] # "transcribing"
          /\ Returned(p) => returned[p] = NoServiceSelected

\* An invocation on a recording with a blob has read "no service selected"
\* and has returned.
C6_Witness ==
    \E p \in Procs :
       /\ Returned(p) /\ recording[p].blob
       /\ selectedService[p] = NoService
       /\ returned[p] = NoServiceSelected

\* ------------------------------------------------------------------ C7

\* C7 as stated: a call that ends in the blob-not-found or in the no-service
\* failure has made no updateRecording call.
C7_Original ==
    \A p \in Procs :
       (Returned(p) /\ returned[p] \in {BlobNotFound, NoServiceSelected}) =>
          Writes(p) = <<>>

\* C7, amended: a call that ends in the blob-not-found failure has made no
\* updateRecording call and no other call of a collaborator; a call that ends
\* in the no-service failure has made exactly two updateRecording calls, the
\* first with status TRANSCRIBING and the second with status FAILED, and no
\* adapter call.
C7_OnlyMissingBlobShortCircuits ==
    \A p \in Procs :
       Returned(p) =>
          /\ returned[p] = BlobNotFound => effects[p] = <<>>
          /\ returned[p] = NoServiceSelected =>
                /\ Len(Writes(p)) = 2
                /\ Writes(p)[1].recording.transcriptionStatus = "TRANSCRIBING"
                /\ Writes(p)[2].recording.transcriptionStatus = "FAILED"
                /\ AdapterCalls(p) = <<>>

\* A call has ended in the no-service failure with both of its writes
\* applied, so the store holds FAILED for its recording.
C7_Witness ==
    \E p \in Procs :
       /\ Returned(p) /\ returned[p] = NoServiceSelected
       /\ Len(Writes(p)) = 2 /\ Writes(p)[1].ok /\ Writes(p)[2].ok
       /\ recording[p].transcriptionStatus = "UNTRANSCRIBED"
       /\ StoredStatus(p) = "FAILED"

\* ------------------------------------------------------------------ C8

\* The status steps the state machine names.
AllowedSteps ==
    { <<"UNTRANSCRIBED", "TRANSCRIBING">>,
      <<"TRANSCRIBING", "DONE">>, <<"TRANSCRIBING", "FAILED">>,
      <<"DONE", "TRANSCRIBING">>, <<"FAILED", "TRANSCRIBING">> }

\* The stored status of a recording before and after a step.
StatusStep(r) == <<db[r].transcriptionStatus, db'[r].transcriptionStatus>>

\* C8 as stated: every change of a stored status is one of the allowed steps.
C8_Original ==
    [][\A r \in Recordings :
         db'[r].transcriptionStatus # db[r].transcriptionStatus =>
            StatusStep(r) \in AllowedSteps]_vars

\* C8, amended: when invocations do not overlap, every change of a stored
\* status is one of the allowed steps, or it is the terminal write of an
\* invocation whose TRANSCRIBING write had failed, which takes the status
\* from whatever it was straight to DONE or FAILED.
C8_StatusStepsInSequence ==
    [][\A r \in Recordings :
         db'[r].transcriptionStatus # db[r].transcriptionStatus =>
            \/ StatusStep(r) \in AllowedSteps
            \/ \E p \in Procs :
                 /\ Returns(p) /\ recording[p].id = r
                 /\ ~Writes(p)[1].ok
                 /\ db'[r].transcriptionStatus \in {"DONE", "FAILED"}]_vars

\* A recording that had FAILED was taken back to TRANSCRIBING by a new
\* invocation, which now waits for its adapter.
C8_Witness ==
    \E p \in Procs :
       /\ pc[p] = "transcribing"
       /\ recording[p].transcriptionStatus = "FAILED"
       /\ Writes(p)[1].ok
       /\ StoredStatus(p) = "TRANSCRIBING"

\* ------------------------------------------------------------------ C9

\* C9 as stated: a stored recording has a transcribedText exactly when its
\* status, the last transition completed, is DONE.
C9_Original ==
    \A r \in Recordings :
       (db[r].transcribedText # "") <=> (db[r].transcriptionStatus = "DONE")

\* C9, amended: a stored recording whose status is DONE has the text of an
\* adapter, one whose status is UNTRANSCRIBED has none, and every write with
\* status TRANSCRIBING or FAILED carries the transcribedText of the recording
\* passed to the call, so a text written earlier stays while the status is
\* TRANSCRIBING or FAILED.
C9_TextOnlyWrittenWithDone ==
    /\ \A r \in Recordings :
          /\ db[r].transcriptionStatus = "DONE" => db[r].transcribedText \in Texts
          /\ db[r].transcriptionStatus = "UNTRANSCRIBED" => db[r].transcribedText = ""
    /\ \A p \in Procs : \A i \in 1..Len(Writes(p)) :
          LET written == Writes(p)[i].recording
          IN written.transcriptionStatus # "DONE" =>
                written.transcribedText = recording[p].transcribedText

\* A recording that was DONE was transcribed again with a failing adapter:
\* the store holds FAILED and still the earlier text.
C9_Witness ==
    \E p \in Procs :
       /\ Returned(p) /\ IsErr(returned[p])
       /\ recording[p].transcriptionStatus = "DONE"
       /\ Len(Writes(p)) = 2 /\ Writes(p)[2].ok
       /\ StoredStatus(p) = "FAILED"
       /\ StoredText(p) \in Texts

\* ----------------------------------------------------------------- C10

\* C10 as stated: a second call in sequence on a recording the first call
\* left DONE, with an adapter that succeeds again, leaves the store DONE with
\* the second call's text.
C10_Original ==
    [][\A p \in Procs :
         (/\ Returns(p)
          /\ recording[p].transcriptionStatus = "DONE"
          /\ IsOk(transcriptionResult[p])) =>
            /\ StoredAfter(p).transcriptionStatus = "DONE"
            /\ StoredAfter(p).transcribedText = transcriptionResult[p].data]_vars

\* C10, amended: a second call in sequence on a recording the first call left
\* DONE, with an adapter that succeeds again, leaves the store DONE with the
\* second call's text in place of the first's when its DONE write succeeds;
\* when that write fails, the store is left as it was before the write.
C10_SecondTextOverwrites ==
    [][\A p \in Procs :
         (/\ Returns(p)
          /\ recording[p].transcriptionStatus = "DONE"
          /\ IsOk(transcriptionResult[p])) =>
            IF TerminalWriteOk(p)
            THEN /\ StoredAfter(p).transcriptionStatus = "DONE"
                 /\ StoredAfter(p).transcribedText = transcriptionResult[p].data
            ELSE db' = db]_vars

\* The second call has returned another text than the first, and the store
\* holds DONE and the second text.
C10_Witness ==
    \E p \in Procs :
       /\ Returned(p) /\ IsOk(returned[p])
       /\ recording[p].transcriptionStatus = "DONE"
       /\ returned[p].data # recording[p].transcribedText
       /\ StoredStatus(p) = "DONE"
       /\ StoredText(p) = returned[p].data

\* ----------------------------------------------------------------- C11

\* The kinds of effect an invocation has.
IsRequested(e) == e.kind = "logEvent" /\ e.type = "transcription_requested"
IsCompleted(e) == e.kind = "logEvent" /\ e.type = "transcription_completed"
IsFailed(e) == e.kind = "logEvent" /\ e.type = "transcription_failed"
IsTerminalEvent(e) == IsCompleted(e) \/ IsFailed(e)
IsTranscribe(e) == e.kind = "transcribe"
IsWrite(e) == e.kind = "updateRecording"
IsWarning(e) == e.kind = "warning"

IsTranscribingWrite(e) ==
    IsWrite(e) /\ e.recording.transcriptionStatus = "TRANSCRIBING"
IsTerminalWrite(e) ==
    IsWrite(e) /\ e.recording.transcriptionStatus \in {"DONE", "FAILED"}

\* The step of the code an effect comes from.
StepOf(e) ==
    CASE IsRequested(e) -> "requested"
      [] IsCompleted(e) -> "completed"
      [] IsFailed(e) -> "failed"
      [] IsTranscribe(e) -> "transcribe"
      [] IsTranscribingWrite(e) -> "writeTranscribing"
      [] IsTerminalWrite(e) -> "writeTerminal"
      [] IsWarning(e) -> "warning"

TerminalEvents == {"completed", "failed"}

\* The places in the effects of invocation p where the effects of some steps
\* stand.
Places(p, steps) == { i \in 1..Len(effects[p]) : StepOf(effects[p][i]) \in steps }

\* The invocation has a blob and has read a selected service the switch names.
HasBlobAndService(p) ==
    /\ pc[p] # "idle" /\ recording[p].blob
    /\ selectedService[p] \notin {UnsetService, NoService}

\* The events and the adapter calls of invocation p, in order.
EventsAndCalls(p) ==
    SelectSeq(effects[p], LAMBDA e : e.kind = "logEvent" \/ IsTranscribe(e))

\* C11: the events and the adapter calls of an invocation that has called an
\* adapter are, in this order: one 'requested' event and one adapter call
\* while the adapter has not answered; one 'requested' event, one adapter call
\* and one terminal event once it has. Once the invocation has returned, the
\* terminal event is 'completed' exactly when the returned Result is an Ok and
\* 'failed' exactly when it is an Err.
C11_OneRequestedOneTerminal ==
    \A p \in Procs :
       HasBlobAndService(p) =>
          LET ec == EventsAndCalls(p)
          IN /\ Len(ec) = IF pc[p] = "transcribing" THEN 2 ELSE 3
             /\ IsRequested(ec[1])
             /\ IsTranscribe(ec[2])
             /\ Len(ec) = 3 => IsTerminalEvent(ec[3])
             /\ Returned(p) =>
                   /\ IsCompleted(ec[3]) <=> IsOk(returned[p])
                   /\ IsFailed(ec[3]) <=> IsErr(returned[p])

\* Two invocations that called an adapter have returned, one with a text after
\* a 'completed' event and one with a failure after a 'failed' event.
C11_Witness ==
    \E p, q \in Procs :
       /\ Returned(p) /\ AdapterCalls(p) # <<>>
       /\ IsOk(returned[p]) /\ SelectSeq(effects[p], IsCompleted) # <<>>
       /\ Returned(q) /\ AdapterCalls(q) # <<>>
       /\ IsErr(returned[q]) /\ SelectSeq(effects[q], IsFailed) # <<>>

\* ----------------------------------------------------------------- C12

\* C12: in an invocation that has returned, the TRANSCRIBING write comes
\* before the adapter call, the adapter call before the terminal write, and
\* the terminal write before the terminal event.
C12_Original ==
    \A p \in Procs :
       (Returned(p) /\ recording[p].blob) =>
          /\ \A i \in Places(p, {"writeTranscribing"}),
                j \in Places(p, {"transcribe"}) : i < j
          /\ \A j \in Places(p, {"transcribe"}),
                k \in Places(p, {"writeTerminal"}) : j < k
          /\ \A k \in Places(p, {"writeTerminal"}),
                m \in Places(p, TerminalEvents) : k < m

\* ----------------------------------------------------------------- C13

\* The step in which transcribeBlob of invocation p sends its terminal event.
SendsTerminalEvent(p) ==
    pc[p] \in {"transcribing", "noService"} /\ pc'[p] = "setTerminal"

\* The event that step sends.
TerminalEventSent(p) == effects'[p][Len(effects'[p])]

\* C13: every terminal event, 'completed' or 'failed', carries a duration; the
\* duration is the clock's reading when the adapter has answered less the
\* reading taken before the 'requested' event, and it is not negative.
C13_Original ==
    [][\A p \in Procs :
         SendsTerminalEvent(p) =>
            /\ "duration" \in DOMAIN TerminalEventSent(p)
            /\ TerminalEventSent(p).duration = now - startTime[p]
            /\ TerminalEventSent(p).duration >= 0]_vars

\* ----------------------------------------------------------------- C14

\* The batch mutation has returned its Result.
BatchReturned == batchPc = "done"

\* The items of the batch.
Items == 1..Len(batchRecordings)

\* The successes and the failures the batch mutation returned.
Successes == batchReturned.data.oks
Failures == batchReturned.data.errs

\* A sequence of items in the order of the input.
InInputOrder(f) == \A k, l \in DOMAIN f : k < l => f[k] < f[l]

\* C14: when transcribeRecordings has returned, its successes are the results
\* of items taken in the order of the input, and so are its failures, whatever
\* the order in which the items settled; every success is an Ok and every
\* failure an Err, and every item stands in exactly one of the two.
C14_InputOrderPreserved ==
    BatchReturned =>
       /\ IsOk(batchReturned)
       /\ Len(Successes) + Len(Failures) = Len(batchRecordings)
       /\ \E f \in [1..Len(Successes) -> Items], g \in [1..Len(Failures) -> Items] :
             /\ InInputOrder(f) /\ InInputOrder(g)
             /\ \A k \in DOMAIN f : IsOk(itemResult[f[k]]) /\ Successes[k] = itemResult[f[k]]
             /\ \A k \in DOMAIN g : IsErr(itemResult[g[k]]) /\ Failures[k] = itemResult[g[k]]
             /\ { f[k] : k \in DOMAIN f } \cup { g[k] : k \in DOMAIN g } = Items
             /\ { f[k] : k \in DOMAIN f } \cap { g[k] : k \in DOMAIN g } = {}

\* A batch of three in which the second item failed and the first and the
\* third succeeded with different texts, and in which the third item settled
\* before the second and the second before the first, has returned the two
\* successes and the failure in the order of the input.
C14_Witness ==
    /\ BatchReturned /\ Len(batchRecordings) = 3
    /\ settled = <<3, 2, 1>>
    /\ itemResult[2] \in AdapterErrors
    /\ Successes = <<itemResult[1], itemResult[3]>>
    /\ itemResult[1] # itemResult[3]
    /\ Failures = <<itemResult[2]>>

\* ----------------------------------------------------------------- C15

\* C15: every success and every failure the batch mutation returns carries the
\* recording it came from.
C15_Original ==
    BatchReturned =>
       /\ \A k \in DOMAIN Successes :
             /\ "recording" \in DOMAIN Successes[k]
             /\ \E i \in Items : Successes[k].recording = batchRecordings[i]
       /\ \A k \in DOMAIN Failures :
             /\ "recording" \in DOMAIN Failures[k]
             /\ \E i \in Items : Failures[k].recording = batchRecordings[i]

\* ----------------------------------------------------------------- C16

\* The steps of the batch mutation.
BatchStep == batchVars' # batchVars

\* C16: the callbacks of the items make no updateRecording call and send no
\* warning, and no step of the batch mutation changes the recording store.
C16_BatchWritesNothing ==
    [][/\ \A i \in DOMAIN itemEffects' : \A k \in DOMAIN itemEffects'[i] :
             StepOf(itemEffects'[i][k]) \notin
                {"writeTranscribing", "writeTerminal", "warning"}
       /\ BatchStep => db' = db]_vars

\* A batch with a success, an adapter failure and a recording without a blob
\* has returned, and the store holds every recording as it was.
C16_Witness ==
    /\ BatchReturned
    /\ \E i, j, k \in Items :
          /\ IsOk(itemResult[i])
          /\ itemResult[j] \in AdapterErrors
          /\ itemResult[k] = BlobNotFound
    /\ \A i \in Items : db[batchRecordings[i].id] = batchRecordings[i]

\* ----------------------------------------------------------------- C17

\* The adapter calls of an item.
ItemAdapterCalls(i) == SelectSeq(itemEffects[i], IsTranscribe)

\* C17: from the start of a batch on, every item with a blob has had its
\* adapter called exactly once when a service was selected, and every other
\* item has had none called, whatever the other items came to; and when the
\* batch mutation returns every item has settled, with the blob-not-found
\* failure when its recording has no blob, with the no-service failure when
\* no service was selected, and otherwise with the answer of its own adapter
\* call: an item's result depends on nothing but the item.
C17_ItemsIndependent ==
    /\ \A i \in Items :
          Len(ItemAdapterCalls(i)) =
             IF batchRecordings[i].blob /\ itemService[i] # NoService THEN 1 ELSE 0
    /\ BatchReturned =>
          \A i \in Items :
             /\ itemPc[i] = "settled"
             /\ itemResult[i] \in
                   IF ~batchRecordings[i].blob THEN {BlobNotFound}
                   ELSE IF itemService[i] = NoService THEN {NoServiceSelected}
                   ELSE AdapterResults

\* A batch of three has returned in which the first recording has no blob,
\* the second item's adapter failed and the third item's adapter, which
\* answered last, succeeded.
C17_Witness ==
    /\ BatchReturned /\ Len(batchRecordings) = 3
    /\ itemResult[1] = BlobNotFound
    /\ itemResult[2] \in AdapterErrors
    /\ IsOk(itemResult[3])
    /\ settled = <<1, 2, 3>>
    /\ Len(ItemAdapterCalls(2)) = 1 /\ Len(ItemAdapterCalls(3)) = 1

\* ----------------------------------------------------------------- C18

\* C18: the batch mutation always returns an Ok; when every item failed, its
\* successes are empty and its failures are the failures of the items, one
\* for each.
C18_AllFailingIsOk ==
    BatchReturned =>
       /\ IsOk(batchReturned)
       /\ (\A i \in Items : IsErr(itemResult[i])) =>
             /\ Successes = <<>>
             /\ Len(Failures) = Len(batchRecordings)
             /\ \A i \in Items : Failures[i] = itemResult[i]

\* A batch of two has returned an Ok without a success: one recording has no
\* blob and the adapter of the other failed.
C18_Witness ==
    /\ BatchReturned /\ Len(batchRecordings) = 2
    /\ IsOk(batchReturned) /\ Successes = <<>>
    /\ Failures = <<BlobNotFound, itemResult[2]>>
    /\ itemResult[2] \in AdapterErrors

\* ----------------------------------------------------------------- C19

\* The updateRecording calls and the adapter calls of invocation p, in order.
WritesAndCalls(p) ==
    SelectSeq(effects[p], LAMBDA e : IsWrite(e) \/ IsTranscribe(e))

\* C19: the updateRecording calls and the adapter calls of an invocation on a
\* recording with a blob that has read a selected service are, in this order:
\* one write with status TRANSCRIBING and one adapter call, whether that write
\* succeeded or not, while the invocation has not returned; and one terminal
\* write more once it has.
C19_OneWriteOneCallOneWrite ==
    \A p \in Procs :
       HasBlobAndService(p) =>
          LET wc == WritesAndCalls(p)
          IN /\ Len(wc) = IF Returned(p) THEN 3 ELSE 2
             /\ IsTranscribingWrite(wc[1])
             /\ IsTranscribe(wc[2])
             /\ Returned(p) => IsTerminalWrite(wc[3])

\* An invocation whose TRANSCRIBING write failed has called its adapter and
\* has returned after a terminal write that failed as well.
C19_Witness ==
    \E p \in Procs :
       /\ Returned(p) /\ HasBlobAndService(p)
       /\ Len(Writes(p)) = 2 /\ ~Writes(p)[1].ok /\ ~Writes(p)[2].ok
       /\ Len(AdapterCalls(p)) = 1

\* ----------------------------------------------------------------- C20

\* The warning of the write that stored a record.
WarningOf(rec) ==
    CASE rec.transcriptionStatus = "TRANSCRIBING" -> TranscribingWarning
      [] rec.transcriptionStatus = "FAILED" -> FailedWarning
      [] rec.transcriptionStatus = "DONE" -> DoneWarning

\* C20: in the effects of an invocation every failed updateRecording call is
\* followed at once by one warning, which has the title and the description
\* of that write and carries the write's error; every warning follows a
\* failed updateRecording call; so there are as many warnings as failed
\* writes, and none after a write that succeeded.
C20_OneWarningPerFailedWrite ==
    \A p \in Procs :
       LET es == effects[p]
       IN /\ \A i \in DOMAIN es :
                /\ (IsWrite(es[i]) /\ ~es[i].ok) =>
                      /\ i + 1 \in DOMAIN es
                      /\ IsWarning(es[i + 1])
                      /\ es[i + 1].title = WarningOf(es[i].recording).title
                      /\ es[i + 1].description = WarningOf(es[i].recording).description
                      /\ es[i + 1].error = DbError
                /\ IsWarning(es[i]) =>
                      i - 1 \in DOMAIN es /\ IsWrite(es[i - 1]) /\ ~es[i - 1].ok
          /\ Cardinality({ i \in DOMAIN es : IsWarning(es[i]) }) =
                Cardinality({ i \in DOMAIN es : IsWrite(es[i]) /\ ~es[i].ok })

\* One invocation has returned with two failed writes and two warnings, and
\* another with two successful writes and none.
C20_Witness ==
    \E p, q \in Procs :
       /\ Returned(p) /\ Len(Writes(p)) = 2
       /\ ~Writes(p)[1].ok /\ ~Writes(p)[2].ok
       /\ Len(SelectSeq(effects[p], IsWarning)) = 2
       /\ Returned(q) /\ Len(Writes(q)) = 2
       /\ Writes(q)[1].ok /\ Writes(q)[2].ok
       /\ SelectSeq(effects[q], IsWarning) = <<>>

\* ----------------------------------------------------------------- C21

\* The providers the events of invocation p name, and the adapters it called.
ProvidersNamed(p) ==
    { effects[p][i].provider :
         i \in { j \in DOMAIN effects[p] : effects[p][j].kind = "logEvent" } }
AdaptersCalled(p) ==
    { effects[p][i].adapter :
         i \in { j \in DOMAIN effects[p] : IsTranscribe(effects[p][j]) } }

\* C21 as stated: the events of an invocation name, and its adapter call goes
\* to, the service that was selected when transcribeRecording was called.
C21_Original ==
    \A p \in Procs :
       calledWith[p] # Unset =>
          /\ ProvidersNamed(p) \subseteq {calledWith[p].selectedTranscriptionService}
          /\ AdaptersCalled(p) \subseteq
                {AdapterOf(calledWith[p].selectedTranscriptionService,
                           calledWith[p].openaiEndpoint)}

\* ----------------------------------------------------------------- C22

\* Invocation p of transcribeRecording is in flight: called, not yet returned.
InFlight(p) == pc[p] \in {"setTranscribing", "transcribing", "noService",
                          "setTerminal"}

\* An invocation of transcribeRecordings is in flight.
BatchInFlight == batchPc = "awaiting"

\* C22: isCurrentlyTranscribing() is true exactly when at least one invocation
\* of transcribeRecording or of transcribeRecordings is in flight; and the key
\* excludes nothing: while other invocations are in flight a new one can be
\* called, and an invocation whose TRANSCRIBING write has been issued goes on
\* to its adapter call without waiting for them.
C22_TrueWhenInFlightNoExclusion ==
    /\ isCurrentlyTranscribing <=> (BatchInFlight \/ \E p \in Procs : InFlight(p))
    /\ \A p \in Procs :
          pc[p] = "setTranscribing" => ENABLED SetTranscribing(p, TRUE, TRUE)
    /\ (calls + batches < MaxInvocations /\ calls < MaxCalls
        /\ \E p \in Procs : ~InFlight(p))
          => ENABLED (\E r \in WithBlob : StartMixed(FreeSlot, r))

\* Two invocations of transcribeRecording are both waiting for their adapter
\* call, the second one called while the first was already waiting.
C22_Witness ==
    /\ isCurrentlyTranscribing
    /\ \A p \in Procs :
          /\ pc[p] = "transcribing"
          /\ Len(AdapterCalls(p)) = 1
    /\ recording["p2"].transcriptionStatus = "TRANSCRIBING"

\* ----------------------------------------------------------------- C23

\* Invocation p issues a status write in this step, and the write it issues.
WritesNow(p) ==
    /\ pc[p] \in {"setTranscribing", "setTerminal"}
    /\ pc'[p] # pc[p]
WriteSent(p) == effects'[p][Len(effects[p]) + 1]

\* rec is the snapshot snap with nothing changed but the status, and the text
\* when the status is DONE.
OnlyStatusChanged(rec, snap) ==
    [rec EXCEPT !.transcriptionStatus = snap.transcriptionStatus,
                !.transcribedText = IF rec.transcriptionStatus = "DONE"
                                    THEN snap.transcribedText ELSE @] = snap

\* C23: every status write an invocation issues sends the recording it was
\* called with, with only transcriptionStatus changed (and transcribedText
\* for DONE); a write that succeeds replaces the stored recording by what was
\* sent, whatever another writer has stored in the meantime, and a write that
\* fails leaves the store as it is.
C23_SnapshotWrittenLastWins ==
    [][\A p \in Procs :
         WritesNow(p) =>
            /\ IsWrite(WriteSent(p))
            /\ WriteSent(p).recording.transcriptionStatus
                  \in {"TRANSCRIBING", "DONE", "FAILED"}
            /\ OnlyStatusChanged(WriteSent(p).recording, recording[p])
            /\ WriteSent(p).ok =>
                  db' = [db EXCEPT ![recording[p].id] = WriteSent(p).recording]
            /\ ~WriteSent(p).ok => db' = db]_vars

\* Another writer edited the text of recording r1 while the only invocation
\* was in flight; the invocation failed and its FAILED write succeeded: the
\* stored text is the one of the snapshot again, the edit is gone.
C23_Witness ==
    /\ calls = 1 /\ otherWrites = 1
    /\ Returned("p1") /\ IsErr(returned["p1"])
    /\ recording["p1"].id = "r1"
    /\ Writes("p1")[Len(Writes("p1"))].ok
    /\ db["r2"].transcribedText = ""
    /\ recording["p1"].transcribedText = ""
    /\ db["r1"] = FailedRecording(recording["p1"])

\* ----------------------------------------------------------------- C24

\* The invocations other than p that are in flight on the recording of p.
OthersInFlightOn(p) ==
    { q \in Procs \ {p} : InFlight(q) /\ recording[q].id = recording[p].id }

\* The status the terminal write of invocation p carries.
TerminalStatusOf(p) ==
    IF IsErr(transcriptionResult[p]) THEN "FAILED" ELSE "DONE"

\* C24: when every write succeeds and is applied as it resolves, a recording
\* is stored as TRANSCRIBING only while an invocation on it is in flight; and
\* when the last of the invocations in flight on a recording returns, its
\* terminal write is the one applied last: the stored status is then the DONE
\* or FAILED of that invocation, whichever invocation was called last.
C24_LastTerminalWriteStands ==
    /\ [](\A r \in Recordings :
            db[r].transcriptionStatus = "TRANSCRIBING" =>
               \E p \in Procs : InFlight(p) /\ recording[p].id = r)
    /\ [][\A p \in Procs :
            (Returns(p) /\ OthersInFlightOn(p) = {}) =>
               /\ StoredAfter(p).transcriptionStatus = TerminalStatusOf(p)
               /\ StoredAfter(p).transcriptionStatus \in {"DONE", "FAILED"}]_vars

\* Two invocations on recording r1, the second called while the first was in
\* flight; the second returned its text first, the first failed and returned
\* last: the recording is stored as FAILED, the status of the first.
C24_Witness ==
    /\ calls = 2
    /\ \A p \in Procs : Returned(p) /\ recording[p].id = "r1"
    /\ recording["p2"].transcriptionStatus = "TRANSCRIBING"
    /\ IsErr(returned["p1"]) /\ IsOk(returned["p2"])
    /\ db["r1"].transcriptionStatus = "FAILED"

\* ----------------------------------------------------------------- C25

\* The number of places of a sequence of effects that hold one of the steps.
CountSteps(es, steps) == Cardinality({ i \in DOMAIN es : StepOf(es[i]) \in steps })

\* The sum of a sequence of numbers.
RECURSIVE SumSeq(_)
SumSeq(ns) == IF ns = <<>> THEN 0 ELSE Head(ns) + SumSeq(Tail(ns))

\* The events of the kinds in steps that the invocations have sent: those of
\* the two slots and those of the items of the batch.
EventsSent(steps) ==
    CountSteps(effects["p1"], steps) + CountSteps(effects["p2"], steps)
    + SumSeq([i \in DOMAIN itemEffects |-> CountSteps(itemEffects[i], steps)])

\* The adapter calls in flight, and the calls of transcribeBlob that await
\* their switch: an adapter call in flight, or the default branch's result.
AdapterCallsInFlight ==
    Cardinality({ p \in Procs : pc[p] = "transcribing" })
    + Cardinality({ i \in DOMAIN itemPc : itemPc[i] = "transcribing" })
AwaitingSwitch ==
    Cardinality({ p \in Procs : pc[p] \in {"transcribing", "noService"} })
    + Cardinality({ i \in DOMAIN itemPc :
                       itemPc[i] \in {"transcribing", "noService"} })

\* An invocation, or an item, without a blob has sent no event; one with a
\* blob and no service selected that has got its result has sent exactly one
\* 'requested' and then one 'failed' event.
NoBlobNoEventNoServiceTwo ==
    /\ \A p \in Procs :
          /\ (recording[p] # Unset /\ ~HasBlob(recording[p])) => effects[p] = <<>>
          /\ (selectedService[p] = NoService /\ pc[p] \in {"setTerminal", "done"}) =>
                /\ CountSteps(effects[p], {"requested"}) = 1
                /\ CountSteps(effects[p], {"failed"}) = 1
                /\ CountSteps(effects[p], {"completed", "transcribe"}) = 0
    /\ \A i \in DOMAIN itemEffects :
          /\ ~HasBlob(batchRecordings[i]) => itemEffects[i] = <<>>
          /\ (itemService[i] = NoService /\ itemPc[i] = "settled") =>
                itemEffects[i] = <<LogEventEffect("transcription_requested", NoService),
                                   FailedEvent(NoService, NoServiceSelected.error)>>

\* C25 as stated: there are never more terminal events than 'requested'
\* events, and as many whenever no adapter call is in flight.
C25_Original ==
    /\ EventsSent(TerminalEvents) <= EventsSent({"requested"})
    /\ AdapterCallsInFlight = 0 =>
          EventsSent(TerminalEvents) = EventsSent({"requested"})
    /\ NoBlobNoEventNoServiceTwo

\* C25, amended: in any interleaving of single and batch invocations the
\* 'requested' events exceed the terminal events by the number of calls of
\* transcribeBlob that await their switch, so there are never more terminal
\* events than 'requested' events, and as many whenever no call of
\* transcribeBlob awaits its switch: an adapter call in flight is one that
\* does, and so is the call that has taken the default branch for want of a
\* service and has not got its result yet. A missing-blob invocation or item
\* sends no event; one with a blob and no service sends one 'requested' and
\* one 'failed' event.
C25_RequestedLeadByAwaiting ==
    /\ EventsSent({"requested"}) - EventsSent(TerminalEvents) = AwaitingSwitch
    /\ EventsSent(TerminalEvents) <= EventsSent({"requested"})
    /\ AwaitingSwitch = 0 =>
          EventsSent(TerminalEvents) = EventsSent({"requested"})
    /\ NoBlobNoEventNoServiceTwo

\* A single invocation and a batch are in flight together: the single one and
\* the second item of the batch wait for their adapter and the first item has
\* its result: three 'requested' events and one terminal event have been sent.
C25_Witness ==
    /\ pc["p1"] = "transcribing"
    /\ batchPc = "awaiting"
    /\ Len(itemPc) = 2
    /\ itemPc[1] = "settled" /\ HasBlob(batchRecordings[1])
    /\ itemPc[2] = "transcribing"
    /\ EventsSent({"requested"}) = 3
    /\ EventsSent(TerminalEvents) = 1

\* ----------------------------------------------------------------- C26

\* Some item of the batch in flight has no result yet.
ItemPending == \E i \in DOMAIN itemPc : itemPc[i] # "settled"

\* C26: when every status-store call and every adapter call returns in the
\* end, every invocation of transcribeRecording returns, unless the process
\* exits first, and when its terminal write succeeds the recording is not
\* stored as TRANSCRIBING at its return; every invocation of
\* transcribeRecordings returns, unless the process exits first, and only
\* once every item has its result: while one adapter call has not returned
\* the batch cannot return. Once the process has exited no step changes the
\* store or resumes an invocation: a recording stored as TRANSCRIBING then
\* stays so for ever.
C26_ReturnsUnlessExited ==
    /\ \A p \in Procs : InFlight(p) ~> (Returned(p) \/ exited)
    /\ BatchInFlight ~> (BatchReturned \/ exited)
    /\ [][/\ \A p \in Procs :
               (Returns(p) /\ TerminalWriteOk(p)) =>
                  StoredAfter(p).transcriptionStatus # "TRANSCRIBING"
          /\ (BatchInFlight /\ BatchReturned') => ~ItemPending
          /\ exited => (db' = db /\ pc' = pc /\ batchPc' = batchPc)]_vars
    /\ [](BatchInFlight /\ ItemPending => ~ENABLED BatchReturns)

\* The process has exited while an invocation on recording r1 was waiting for
\* its adapter and a batch was waiting for an item: r1 is stored as
\* TRANSCRIBING, and neither invocation has returned.
C26_Witness ==
    /\ exited
    /\ pc["p1"] = "transcribing" /\ recording["p1"].id = "r1"
    /\ db["r1"].transcriptionStatus = "TRANSCRIBING"
    /\ BatchInFlight /\ ItemPending

====
